---- MODULE Spec2Model ----
(***************************************************************************)
(* Model of the Image block tool: the coordinator ImageTool (src/index.ts)  *)
(* and its presentation component Ui (src/ui.ts).  The transport            *)
(* (uploader.ts) is an external collaborator that calls back onUpload and   *)
(* onError; the browser contributes the media elements' ready/error events, *)
(* the pointer events and the layout (clientWidth, getBoundingClientRect).  *)
(***************************************************************************)
EXTENDS Integers, Sequences, FiniteSets

VARIABLES
  tool,       \* the ImageTool object: readOnly, config.showCaption, _data
  ui,         \* the Ui object: nodes, handlers, isResizing, contentRatio
  els,        \* the media elements created by fillImage, in creation order
  drags,      \* the (mousemove, mouseup) listener pairs on the document
  uploads,    \* the transport's uploads in flight
  notes,      \* the styles of the notifications shown through api.notifier
  holder,     \* width in px of the block holder the wrapper is laid out in
  rendered,   \* the host has called render()
  saved,      \* the data the block was constructed from
  moves,      \* number of pointer moves delivered during drags
  lim,        \* the bounds of the run: fills, uploads, drags, moves
  destroyed,  \* <<>>, or the block as destroy() left it once the host called it
  op          \* the last operation, its inputs and what it found

vars ==
  <<tool, ui, els, drags, uploads, notes, holder, rendered, saved, moves, lim,
    destroyed, op>>

-----------------------------------------------------------------------------
(* Bounds of the model *)

MaxFills == 2      \* media elements created over the life of a block
MaxUploads == 1    \* uploads begun over the life of a block
MaxDrags == 1      \* listener pairs registered on the document at one time
MaxMoves == 1      \* pointer moves delivered during the drags of a block
MaxReloads == 1    \* times a block is constructed again from what it saved
DimMoves == 2      \* pointer moves, where only the dimensions are followed
MaxSessions == 2   \* pointer-downs with no pointer-up between, where drags are followed
DragMoves == 2     \* pointer moves and resizeImage calls, where drags are followed
RaceUploads == 2   \* uploads in flight together, where their responses race
PasteUploads == 1  \* paste events delivered to a block, where paste is followed

-----------------------------------------------------------------------------
(* JavaScript values: strings are sequences of characters *)

Digits == <<"0", "1", "2", "3", "4", "5", "6", "7", "8", "9">>

IsDigit(c) == \E i \in 1..10 : Digits[i] = c

DigitVal(c) == (CHOOSE i \in 1..10 : Digits[i] = c) - 1

RECURSIVE NatStringOf(_)
NatStringOf(n) ==
  IF n < 10 THEN <<Digits[n + 1]>>
  ELSE NatStringOf(n \div 10) \o <<Digits[(n % 10) + 1]>>

\* String(n) for an integer n
StringOf(n) == IF n < 0 THEN <<"-">> \o NatStringOf(0 - n) ELSE NatStringOf(n)

Undefined == [t |-> "undefined", s |-> <<>>, n |-> 0]
Str(s) == [t |-> "string", s |-> s, n |-> 0]
Num(n) == [t |-> "number", s |-> <<>>, n |-> n]

NaN == [nan |-> TRUE, n |-> 0]
Int32(n) == [nan |-> FALSE, n |-> n]

RECURSIVE SkipSpace(_)
SkipSpace(s) ==
  IF s # <<>> /\ Head(s) = " " THEN SkipSpace(Tail(s)) ELSE s

RECURSIVE ReadDigits(_, _)
ReadDigits(s, acc) ==
  IF s # <<>> /\ IsDigit(Head(s))
  THEN ReadDigits(Tail(s), 10 * acc + DigitVal(Head(s)))
  ELSE acc

\* parseInt(s, 10) of a string: leading blanks, an optional sign, then the
\* longest run of decimal digits; NaN when there is no digit
ParseIntStr(s) ==
  LET a == SkipSpace(s)
      neg == a # <<>> /\ Head(a) = "-"
      b == IF a # <<>> /\ Head(a) \in {"-", "+"} THEN Tail(a) ELSE a
  IN IF b = <<>> \/ ~IsDigit(Head(b)) THEN NaN
     ELSE Int32(IF neg THEN 0 - ReadDigits(b, 0) ELSE ReadDigits(b, 0))

\* parseInt(v, 10) of a defined value: a number is converted to its string
ParseInt(v) == IF v.t = "number" THEN ParseIntStr(StringOf(v.n)) ELSE ParseIntStr(v.s)


\* str.trim(): blanks removed at both ends
RECURSIVE TrimRight(_)
TrimRight(s) ==
  IF s # <<>> /\ s[Len(s)] = " " THEN TrimRight(SubSeq(s, 1, Len(s) - 1)) ELSE s

Trim(s) == TrimRight(SkipSpace(s))

Min(a, b) == IF a < b THEN a ELSE b
Max(a, b) == IF a > b THEN a ELSE b

-----------------------------------------------------------------------------
(* The data of a block *)

\* a file descriptor: the keys it has and the value of its url key
NoFile == [t |-> "undefined", keys |-> {}, url |-> <<>>]
FileObj(keys, url) == [t |-> "object", keys |-> keys, url |-> url]

\* truthiness of file.url for a defined file
HasUrl(file) == "url" \in file.keys /\ file.url # <<>>

PngUrl == <<"a", ".", "p", "n", "g">>
Mp4Url == <<"v", ".", "m", "p", "4">>

\* the assets of the model, with the intrinsic size the browser finds in them
Urls == {PngUrl, Mp4Url}
NaturalWidth(url) == IF url = PngUrl THEN 200 ELSE 320
NaturalHeight(url) == IF url = PngUrl THEN 100 ELSE 240

UiState == {"empty", "uploading", "filled"}

-----------------------------------------------------------------------------
(* Ui (src/ui.ts).  The operators take and return the objects of one block: *)
(* w.tool, w.ui, w.els and w.notes.                                         *)

\* toggleStatus that sets the flag of the new state and clears no other
toggleStatusAddOnly(w, status) ==
  [w EXCEPT !.ui.classes = @ \cup {c \in UiState : c = status}]

\* Ui.toggleStatus: classList.toggle(class, status === state) for each state
toggleStatus(w, status) ==
  [w EXCEPT !.ui.classes =
     (@ \ {c \in UiState : c # status}) \cup {c \in UiState : c = status}]

\* Ui.render: the initial state from the saved data
render(w, toolData) ==
  IF toolData.file.t = "undefined" \/ Cardinality(toolData.file.keys) = 0
  THEN toggleStatus(w, "empty")
  ELSE toggleStatus(w, "uploading")

\* Ui.showPreloader
showPreloader(w, src) ==
  toggleStatus([w EXCEPT !.ui.preloaderBg = src], "uploading")

\* Ui.hidePreloader
hidePreloader(w) ==
  toggleStatus([w EXCEPT !.ui.preloaderBg = <<>>], "empty")

\* Ui.fillCaption
fillCaption(w, text) == [w EXCEPT !.ui.captionText = text]

\* Ui.removeFileButton
removeFileButton(w) ==
  IF ~w.ui.readOnly /\ w.ui.buttonParent
  THEN [w EXCEPT !.ui.buttonParent = FALSE]
  ELSE w

\* addFileButton without the read-only test
addFileButtonAlways(w) == [w EXCEPT !.ui.buttonParent = TRUE]

\* Ui.addFileButton
addFileButton(w) ==
  IF ~w.ui.readOnly THEN [w EXCEPT !.ui.buttonParent = TRUE] ELSE w

\* a test for .mp4 anywhere in the url
IsMp4Anywhere(url) ==
  \E i \in 1..Len(url) :
    i + 3 <= Len(url) /\ SubSeq(url, i, i + 3) = <<".", "m", "p", "4">>

\* the test /\.mp4$/ of Ui.fillImage
IsMp4(url) ==
  Len(url) >= 4 /\ SubSeq(url, Len(url) - 3, Len(url)) = <<".", "m", "p", "4">>

\* Ui.createResizer, for both handles of the element k: each handle is put
\* beside the element and gets a mousedown listener, which is stored in
\* resizeHandlers
createResizers(w, k) ==
  [w EXCEPT !.els[k].handles = TRUE,
            !.els[k].downL = TRUE, !.els[k].downR = TRUE,
            !.ui.resizeHandlers = @ \cup {<<k, "left">>, <<k, "right">>}]

\* the properties make() assigns to the element of Ui.fillImage
Attributes(tag, url) ==
  IF tag = "VIDEO"
  THEN [src |-> url, loading |-> "lazy", decoding |-> "async",
        autoplay |-> TRUE, loop |-> TRUE, muted |-> TRUE,
        playsinline |-> TRUE, controls |-> TRUE]
  ELSE [src |-> url, loading |-> "lazy", decoding |-> "async"]

\* the event Ui.fillImage listens to for the source being ready
EventName(tag) == IF tag = "VIDEO" THEN "loadeddata" ELSE "load"

\* Ui.fillImage: a new media element with its ready and error listeners, its
\* content wrapper appended to the image container, the handles and the caption.
\* The "clean up old listeners" step calls removeEventListener on the element
\* just made, which has none: the elements made earlier keep their listeners
\* and stay where they are in the image container.
fillImage(w, url, height, width) ==
  LET k == Len(w.els) + 1
      tag == IF IsMp4(url) THEN "VIDEO" ELSE "IMG"
      el == [url |-> url, tag |-> tag,
             attributes |-> Attributes(tag, url),
             eventName |-> EventName(tag),
             parent |-> TRUE, styleWidth |-> 0, styleHeight |-> "",
             loaded |-> FALSE, onReady |-> TRUE, onError |-> TRUE,
             fired |-> "none", width |-> width, height |-> height,
             handles |-> FALSE, downL |-> FALSE, downR |-> FALSE]
      w1 == [w EXCEPT !.els = Append(@, el),
                      !.ui.imageEl = k,
                      !.ui.imageLoadHandler = k,
                      !.ui.imageErrorHandler = k]
      w2 == IF ~w1.ui.readOnly THEN createResizers(w1, k) ELSE w1
  IN IF w2.ui.showCaption THEN [w2 EXCEPT !.ui.captionParent = k] ELSE w2

NaNRatio == [nan |-> TRUE, h |-> 0, w |-> 0]

\* intrinsic size of a media element: known once its data has loaded
IntrinsicWidth(e) == IF e.fired = "load" THEN NaturalWidth(e.url) ELSE 0
IntrinsicHeight(e) == IF e.fired = "load" THEN NaturalHeight(e.url) ELSE 0

\* height / width as the handler of a fillImage(tag) call reads them from the
\* element e: naturalHeight and naturalWidth exist on images only, videoHeight
\* and videoWidth on videos only, and 0 / 0 is NaN like undefined / undefined
Ratio(tag, e) ==
  IF tag # e.tag \/ IntrinsicWidth(e) = 0 THEN NaNRatio
  ELSE [nan |-> FALSE, h |-> IntrinsicHeight(e), w |-> IntrinsicWidth(e)]

\* the saved width applied only as the earlier versions did, never on its own
applySavedWidthNever(e, width) == e

\* the saved width applied whenever it parses to a number, of any sign
applySavedWidthAnyNumber(e, width) ==
  IF width.t # "undefined" /\ ~ParseInt(width).nan
  THEN [e EXCEPT !.styleWidth = ParseInt(width).n, !.styleHeight = "auto"]
  ELSE e

\* the saved width applied unless it is negative
applySavedWidthNotNegative(e, width) ==
  IF width.t # "undefined" /\ ~ParseInt(width).nan /\ ParseInt(width).n >= 0
  THEN [e EXCEPT !.styleWidth = ParseInt(width).n, !.styleHeight = "auto"]
  ELSE e

\* the saved width as imageLoadHandler applies it to the element e
applySavedWidth(e, width) ==
  IF width.t # "undefined" /\ ~ParseInt(width).nan /\ ParseInt(width).n > 0
  THEN [e EXCEPT !.styleWidth = ParseInt(width).n, !.styleHeight = "auto"]
  ELSE e

\* imageLoadHandler of the k-th fillImage call.  It reads this.nodes.imageEl
\* when it runs; with no current element the read of the intrinsic size throws
\* and the handler ends there.
imageLoadHandler(w, k) ==
  LET w1 == toggleStatus(w, "filled")
      cur == w1.ui.imageEl
  IN IF cur = 0 THEN w1
     ELSE [w1 EXCEPT !.els[cur] = applySavedWidth([@ EXCEPT !.loaded = TRUE], w.els[k].width),
                     !.ui.contentRatio = Ratio(w.els[k].tag, w1.els[cur]),
                     !.ui.preloaderDisplay = "none"]

\* an error handler that shows the Empty state and leaves the element alone
imageErrorHandlerKeep(w) == toggleStatus(w, "empty")

\* imageErrorHandler of any fillImage call: it removes this.nodes.imageEl
imageErrorHandler(w) ==
  LET w1 == toggleStatus(w, "empty")
      cur == w1.ui.imageEl
  IN IF cur # 0 /\ w1.els[cur].parent
     THEN [w1 EXCEPT !.els[cur].parent = FALSE, !.ui.imageEl = 0]
     ELSE w1

\* the box the browser lays the element e out in, inside a holder of width hw:
\* the explicit width if the block has set one, else the intrinsic width,
\* capped by max-width: 100%; the height follows the intrinsic ratio (height
\* auto) and is 0 while the element has no data
RenderWidth(e, hw) ==
  IF e.styleWidth > 0 THEN Min(e.styleWidth, hw) ELSE Min(IntrinsicWidth(e), hw)

RenderHeight(e, hw) ==
  IF IntrinsicWidth(e) = 0 THEN 0
  ELSE (RenderWidth(e, hw) * IntrinsicHeight(e)) \div IntrinsicWidth(e)

\* getBoundingClientRect() of the element, which the content wrapper centres
RectLeft(e, hw) == (hw - RenderWidth(e, hw)) \div 2
RectRight(e, hw) == RectLeft(e, hw) + RenderWidth(e, hw)

MinWidth == 30

\* resizeImage without the minimum width
resizeImageNoMinimum(w, clientX, align, hw) ==
  IF ~w.ui.isResizing \/ w.ui.imageEl = 0 THEN w
  ELSE LET e == w.els[w.ui.imageEl]
           offset == IF align = "right" THEN clientX - RectRight(e, hw)
                     ELSE RectLeft(e, hw) - clientX
       IN [w EXCEPT !.els[w.ui.imageEl].styleWidth = RenderWidth(e, hw) + offset,
                    !.els[w.ui.imageEl].styleHeight = "auto"]

\* resizeImage that does not look at the resizing flag
resizeImageAnyTime(w, clientX, align, hw) ==
  IF w.ui.imageEl = 0 THEN w
  ELSE LET e == w.els[w.ui.imageEl]
           offset == IF align = "right" THEN clientX - RectRight(e, hw)
                     ELSE RectLeft(e, hw) - clientX
           newWidth == Max(RenderWidth(e, hw) + offset, MinWidth)
       IN [w EXCEPT !.els[w.ui.imageEl].styleWidth = newWidth,
                    !.els[w.ui.imageEl].styleHeight = "auto"]

\* resizeImage that also writes the new width into the block's data
resizeImageStoring(w, clientX, align, hw) ==
  IF ~w.ui.isResizing \/ w.ui.imageEl = 0 THEN w
  ELSE LET e == w.els[w.ui.imageEl]
           offset == IF align = "right" THEN clientX - RectRight(e, hw)
                     ELSE RectLeft(e, hw) - clientX
           newWidth == Max(RenderWidth(e, hw) + offset, MinWidth)
       IN [w EXCEPT !.els[w.ui.imageEl].styleWidth = newWidth,
                    !.els[w.ui.imageEl].styleHeight = "auto",
                    !.tool.data.width = Str(StringOf(newWidth))]

\* Ui.resizeImage for a pointer at clientX
resizeImage(w, clientX, align, hw) ==
  IF ~w.ui.isResizing \/ w.ui.imageEl = 0 THEN w
  ELSE LET e == w.els[w.ui.imageEl]
           offset == IF align = "right" THEN clientX - RectRight(e, hw)
                     ELSE RectLeft(e, hw) - clientX
           newWidth == Max(RenderWidth(e, hw) + offset, MinWidth)
       IN [w EXCEPT !.els[w.ui.imageEl].styleWidth = newWidth,
                    !.els[w.ui.imageEl].styleHeight = "auto"]

\* removeEventListener of the listeners in `handlers` (a set of <<k, align>>)
removeMouseDown(elements, handlers) ==
  [k \in 1..Len(elements) |->
     [elements[k] EXCEPT !.downL = @ /\ <<k, "left">> \notin handlers,
                         !.downR = @ /\ <<k, "right">> \notin handlers]]

\* Ui.destroy: the ready and error listeners are removed from
\* this.nodes.imageEl, and only the handlers of the last fillImage are known
\* to it; the click listener from the button; each stored mousedown listener
\* from its handle.  The listeners on the document are not touched.
destroy(w) ==
  LET cur == w.ui.imageEl
      w1 == IF cur # 0
            THEN [w EXCEPT !.els[cur].onReady = @ /\ w.ui.imageLoadHandler # cur,
                           !.els[cur].onError = @ /\ w.ui.imageErrorHandler # cur]
            ELSE w
      w2 == IF w1.ui.fileButtonHandler
            THEN [w1 EXCEPT !.ui.buttonClick = FALSE]
            ELSE w1
  IN [w2 EXCEPT !.els = removeMouseDown(@, w2.ui.resizeHandlers),
                !.ui.resizeHandlers = {},
                !.ui.imageLoadHandler = 0,
                !.ui.imageErrorHandler = 0,
                !.ui.fileButtonHandler = FALSE]

-----------------------------------------------------------------------------
(* ImageTool (src/index.ts) *)

\* isNotEmpty that does not trim
isNotEmptyUntrimmed(str) == str.t # "undefined" /\ str.s # <<>>

\* ImageTool.isNotEmpty
isNotEmpty(str) == str.t # "undefined" /\ Trim(str.s) # <<>>

\* the image setter that keeps the url of the descriptor and nothing else
setImageUrlOnly(w, file) ==
  LET w1 == [w EXCEPT !.tool.data.file =
               IF file.t = "undefined" THEN FileObj({"url"}, <<>>)
               ELSE FileObj(file.keys \cap {"url"}, file.url)]
  IN IF file.t # "undefined" /\ HasUrl(file)
     THEN fillImage(w1, file.url, w1.tool.data.height, w1.tool.data.width)
     ELSE w1

\* a setter that keeps the asset the block already has
setImageOnce(w, file) ==
  IF HasUrl(w.tool.data.file) THEN w
  ELSE LET w1 == [w EXCEPT !.tool.data.file =
                    IF file.t = "undefined" THEN FileObj({"url"}, <<>>) ELSE file]
       IN IF file.t # "undefined" /\ HasUrl(file)
          THEN fillImage(w1, file.url, w1.tool.data.height, w1.tool.data.width)
          ELSE w1

\* the setter of ImageTool.image
setImage(w, file) ==
  LET w1 == [w EXCEPT !.tool.data.file =
               IF file.t = "undefined" THEN FileObj({"url"}, <<>>) ELSE file]
  IN IF file.t # "undefined" /\ HasUrl(file)
     THEN fillImage(w1, file.url, w1.tool.data.height, w1.tool.data.width)
     ELSE w1

\* the setter of ImageTool.data
setData(w, data) ==
  LET caption == IF data.caption.t = "undefined" THEN <<>> ELSE data.caption.s
      w1 == [w EXCEPT !.tool.data.caption = caption,
                      !.tool.data.height = data.height,
                      !.tool.data.width = data.width]
  IN fillCaption(setImage(w1, data.file), caption)

\* the constructors of ImageTool and of Ui.  The tool builds its own config
\* field by field from the caller's; showCaption is computed, and the caller's
\* config.showCaption is not among the fields read.
Constructor(data, config, readOnly) ==
  LET showCaption == ~readOnly \/ isNotEmpty(data.caption)
      w0 == [tool |-> [readOnly |-> readOnly,
                       showCaption |-> showCaption,
                       data |-> [caption |-> <<>>, height |-> data.height,
                                 width |-> data.width,
                                 file |-> FileObj({"url"}, <<>>)]],
             ui |-> [readOnly |-> readOnly,
                     showCaption |-> showCaption,
                     classes |-> {},
                     buttonParent |-> ~readOnly,
                     buttonClick |-> TRUE,
                     fileButtonHandler |-> TRUE,
                     imageEl |-> 0,
                     imageLoadHandler |-> 0,
                     imageErrorHandler |-> 0,
                     resizeHandlers |-> {},
                     isResizing |-> FALSE,
                     contentRatio |-> [nan |-> FALSE, h |-> 1, w |-> 1],
                     preloaderBg |-> <<>>,
                     preloaderDisplay |-> "",
                     captionText |-> <<>>,
                     captionParent |-> 0],
             els |-> <<>>,
             notes |-> <<>>]
  IN setData(w0, data)

\* validate that looks for the url key only
validateKey(savedData) ==
  IF savedData.file.t = "undefined" THEN "throws"
  ELSE IF "url" \in savedData.file.keys THEN "true" ELSE "false"

\* ImageTool.validate: "throws" when savedData.file is undefined
validate(savedData) ==
  IF savedData.file.t = "undefined" THEN "throws"
  ELSE IF HasUrl(savedData.file) THEN "true" ELSE "false"

\* save that returns the text of the caption node as it is
saveUntrimmed(w, currentWidth, currentHeight) ==
  LET w1 == [w EXCEPT !.tool.data.caption = w.ui.captionText]
  IN IF currentWidth > 0 /\ currentHeight > 0
     THEN [w1 EXCEPT !.tool.data.width = Str(StringOf(currentWidth)),
                     !.tool.data.height = Str(StringOf(currentHeight))]
     ELSE w1

\* save that writes when either dimension is positive
saveEither(w, currentWidth, currentHeight) ==
  LET w1 == [w EXCEPT !.tool.data.caption = Trim(w.ui.captionText)]
  IN IF currentWidth > 0 \/ currentHeight > 0
     THEN [w1 EXCEPT !.tool.data.width = Str(StringOf(currentWidth)),
                     !.tool.data.height = Str(StringOf(currentHeight))]
     ELSE w1

\* ImageTool.save, with the clientWidth and clientHeight the browser reports
\* for this.ui.nodes.imageEl (0 and 0 when there is no element)
save(w, currentWidth, currentHeight) ==
  LET w1 == [w EXCEPT !.tool.data.caption = Trim(w.ui.captionText)]
  IN IF currentWidth > 0 /\ currentHeight > 0
     THEN [w1 EXCEPT !.tool.data.width = Str(StringOf(currentWidth)),
                     !.tool.data.height = Str(StringOf(currentHeight))]
     ELSE w1

\* ImageTool.uploadUrl: the preloader is shown before the transport is called
uploadUrl(w, url) == showPreloader(w, url)

\* ImageTool.uploadFile: the transport is called, and shows nothing until it
\* calls onPreview
uploadFile(w) == w

\* the test /^blob:/ of ImageTool.onPaste
IsBlob(src) ==
  Len(src) >= 5 /\ SubSeq(src, 1, 5) = <<"b", "l", "o", "b", ":">>

\* the paste events of the host
TagPaste(src) == [type |-> "tag", data |-> src]
PatternPaste(url) == [type |-> "pattern", data |-> url]
FilePaste == [type |-> "file", data |-> <<>>]

\* onPaste that sends every pasted tag to the url upload
onPasteTagAsUrl(event) ==
  IF event.type \in {"tag", "pattern"}
  THEN [call |-> "url", src |-> event.data, stage |-> "sent"]
  ELSE IF event.type = "file"
  THEN [call |-> "file", src |-> <<>>, stage |-> "reading"]
  ELSE [call |-> "none", src |-> <<>>, stage |-> "done"]

\* onPaste that uploads a pasted tag as a file
onPasteTagAsFile(event) ==
  IF event.type = "pattern"
  THEN [call |-> "url", src |-> event.data, stage |-> "sent"]
  ELSE IF event.type = "tag"
  THEN [call |-> "fetch", src |-> event.data, stage |-> "fetching"]
  ELSE IF event.type = "file"
  THEN [call |-> "file", src |-> <<>>, stage |-> "reading"]
  ELSE [call |-> "none", src |-> <<>>, stage |-> "done"]

\* ImageTool.onPaste: the private method the event ends in and its argument
onPaste(event) ==
  IF event.type = "tag"
  THEN IF IsBlob(event.data)
       THEN [call |-> "fetch", src |-> event.data, stage |-> "fetching"]
       ELSE [call |-> "url", src |-> event.data, stage |-> "sent"]
  ELSE IF event.type = "pattern"
  THEN [call |-> "url", src |-> event.data, stage |-> "sent"]
  ELSE IF event.type = "file"
  THEN [call |-> "file", src |-> <<>>, stage |-> "reading"]
  ELSE [call |-> "none", src |-> <<>>, stage |-> "done"]

\* uploadingFailed that does not put the upload-trigger button back
uploadingFailedNoButton(w) ==
  hidePreloader([w EXCEPT !.notes = Append(@, "error")])

\* ImageTool.uploadingFailed
uploadingFailed(w) ==
  addFileButton(hidePreloader([w EXCEPT !.notes = Append(@, "error")]))

\* ImageTool.onUpload for a response [success, file]
onUpload(w, response) ==
  IF response.success # 0 /\ response.file.t # "undefined"
  THEN setImage(w, response.file)
  ELSE uploadingFailed(w)

-----------------------------------------------------------------------------
(* Inputs *)

\* saved captions, widths and heights a block is constructed with
Captions == {Undefined, Str(<<" ", "c", " ">>)}

Widths ==
  { Undefined, Str(<<"0">>), Str(<<"-", "5">>), Str(<<"a">>),
    Str(<<"5", "0">>), Num(101), Num(150) }

Heights == {Undefined, Str(<<"7", "5">>)}

Files == {NoFile, FileObj({}, <<>>), FileObj({"url"}, <<>>), FileObj({"url"}, PngUrl)}

InitData == [caption : Captions, width : Widths, height : Heights, file : Files]

HolderWidths == {240}

\* pointer positions of the move events
PointerXs == {10, 230}

\* the preview the transport produces for a file (a data: url)
PreviewSrc == <<"d">>

\* responses of the backend
Responses ==
  [success : {0, 1},
   file : {NoFile, FileObj({}, <<>>), FileObj({"url", "size"}, PngUrl),
           FileObj({"url"}, Mp4Url)}]

-----------------------------------------------------------------------------
(* The state machine *)

World == [tool |-> tool, ui |-> ui, els |-> els, notes |-> notes]

\* what an operation found: the data, the notifications, the state flags and
\* the presentation with its media elements
Pre ==
  [data |-> tool.data, notes |-> notes, classes |-> ui.classes,
   ui |-> ui, els |-> els]

\* the operation `name` with input `arg` leaves the block as w
Becomes(w, name, arg) ==
  /\ tool' = w.tool
  /\ ui' = w.ui
  /\ els' = w.els
  /\ notes' = w.notes
  /\ op' = [name |-> name, arg |-> arg, pre |-> Pre]

\* the config a caller passes: showCaption is "true", "false" or "undefined"
Config(showCaption) == [showCaption |-> showCaption]

NoConfig == Config("undefined")

\* the state after new ImageTool({data, config, readOnly, ...}), in a holder
\* of width hw
Constructed(data, config, readOnly, hw, bounds) ==
  LET w == Constructor(data, config, readOnly)
  IN /\ tool = w.tool
     /\ ui = w.ui
     /\ els = w.els
     /\ notes = w.notes
     /\ drags = <<>>
     /\ uploads = <<>>
     /\ holder = hw
     /\ rendered = FALSE
     /\ saved = [data |-> data, config |-> config, px |-> 0, gen |-> 0]
     /\ moves = 0
     /\ lim = bounds
     /\ destroyed = <<>>
     /\ op = [name |-> "constructor", arg |-> data, pre |-> <<>>]

Data(caption, width, height, file) ==
  [caption |-> caption, width |-> width, height |-> height, file |-> file]

\* the saved data of the blocks whose whole life is followed: a new block, a
\* block without an asset, blocks never sized, sized, saved by an earlier
\* version in pixels, and with degenerate dimensions
Blocks ==
  { Data(Undefined, Undefined, Undefined, NoFile),
    Data(Undefined, Undefined, Undefined, FileObj({}, <<>>)),
    Data(Str(<<>>), Undefined, Undefined, FileObj({"url"}, <<>>)),
    Data(Undefined, Undefined, Undefined, FileObj({"url"}, PngUrl)),
    Data(Str(<<" ", "c", " ">>), Str(<<"5", "0">>), Undefined, FileObj({"url"}, PngUrl)),
    Data(Undefined, Num(150), Undefined, FileObj({"url"}, PngUrl)),
    Data(Undefined, Str(<<"0">>), Str(<<"0">>), FileObj({"url"}, PngUrl)),
    Data(Undefined, Str(<<"1", "6", "0">>), Str(<<"8", "0">>), FileObj({"url"}, Mp4Url)) }

Init ==
  \E data \in Blocks, readOnly \in BOOLEAN, hw \in HolderWidths :
    Constructed(data, NoConfig, readOnly, hw,
                [fills |-> MaxFills, uploads |-> MaxUploads,
                 drags |-> MaxDrags, moves |-> MaxMoves])

\* the host calls render()
Render ==
  /\ ~rendered /\ destroyed = <<>>
  /\ rendered' = TRUE
  /\ Becomes(render(World, tool.data), "render", <<>>)
  /\ UNCHANGED <<drags, uploads, holder, saved, moves, lim, destroyed>>

\* the browser fires the ready event of the k-th media element
LoadEvent(k) ==
  /\ els[k].onReady /\ els[k].fired = "none"
  /\ Becomes(imageLoadHandler([World EXCEPT !.els[k].fired = "load"], k), "load", k)
  /\ UNCHANGED <<drags, uploads, holder, rendered, saved, moves, lim, destroyed>>

\* the browser fires the error event of the k-th media element
ErrorEvent(k) ==
  /\ els[k].onError /\ els[k].fired = "none"
  /\ Becomes(imageErrorHandler([World EXCEPT !.els[k].fired = "error"]), "error", k)
  /\ UNCHANGED <<drags, uploads, holder, rendered, saved, moves, lim, destroyed>>

\* an upload the transport has been given: the event it came from ("button",
\* "tag", "pattern", "file"), the method of the transport that was called
\* ("picker" for uploadSelectedFile, "file" for uploadByFile, "url" for
\* uploadByUrl, "fetch" while a blob is still being read), the url it was
\* given, and how far it is ("fetching" the blob, "reading" the file for its
\* preview, "sent", "done").  The transport calls onPreview before it delivers
\* the response or the failure.
Upload(from, kind, src, stage) ==
  [from |-> from, kind |-> kind, src |-> src, stage |-> stage]

\* the user picks a file with the upload-trigger button: onSelectFile calls
\* uploadSelectedFile, which calls onPreUpload once the file is chosen
SelectFile ==
  /\ rendered /\ ~tool.readOnly
  /\ ui.buttonParent /\ ui.buttonClick
  /\ Len(uploads) < lim.uploads
  /\ uploads' = Append(uploads, Upload("button", "picker", <<>>, "reading"))
  /\ Becomes(removeFileButton(World), "selectFile", <<>>)
  /\ UNCHANGED <<drags, holder, rendered, saved, moves, lim, destroyed>>

\* the host delivers a paste event: ImageTool.onPaste
OnPaste(event) ==
  /\ rendered /\ destroyed = <<>>
  /\ Len(uploads) < lim.uploads
  /\ LET c == onPaste(event)
     IN /\ uploads' =
             IF c.call = "none" THEN uploads
             ELSE Append(uploads, Upload(event.type, c.call, c.src, c.stage))
        /\ Becomes(IF c.call = "url" THEN uploadUrl(World, c.src)
                   ELSE IF c.call = "file" THEN uploadFile(World)
                   ELSE World,
                   "onPaste", event)
  /\ UNCHANGED <<drags, holder, rendered, saved, moves, lim, destroyed>>

\* a file is pasted or dropped
PasteFile == OnPaste(FilePaste)

\* a url that matches the pattern is pasted
PasteUrl(url) == OnPaste(PatternPaste(url))

\* fetch(image.src) of a pasted blob resolves: uploadFile is called with it
Fetched(u) ==
  /\ uploads[u].stage = "fetching"
  /\ uploads' = [uploads EXCEPT ![u].kind = "file", ![u].stage = "reading"]
  /\ Becomes(uploadFile(World), "fetched", u)
  /\ UNCHANGED <<drags, holder, rendered, saved, moves, lim, destroyed>>

\* fetch(image.src) is rejected: the promise chain has no catch and calls
\* nothing of the block
FetchFailed(u) ==
  /\ uploads[u].stage = "fetching"
  /\ uploads' = [uploads EXCEPT ![u].stage = "done"]
  /\ Becomes(World, "fetchFailed", u)
  /\ UNCHANGED <<drags, holder, rendered, saved, moves, lim, destroyed>>

\* the transport has read the file of the upload u: onPreview
Preview(u) ==
  /\ uploads[u].stage = "reading"
  /\ uploads' = [uploads EXCEPT ![u].stage = "sent"]
  /\ Becomes(showPreloader(World, PreviewSrc), "preview", u)
  /\ UNCHANGED <<drags, holder, rendered, saved, moves, lim, destroyed>>

\* the transport delivers the backend's response to the upload u: onUpload
Respond(u, response) ==
  /\ uploads[u].stage = "sent"
  /\ (response.success # 0 /\ HasUrl(response.file)) => Len(els) < lim.fills
  /\ uploads' = [uploads EXCEPT ![u].stage = "done"]
  /\ Becomes(onUpload(World, response), "onUpload", response)
  /\ UNCHANGED <<drags, holder, rendered, saved, moves, lim, destroyed>>

\* the transport reports the failure of the upload u: onError
Fail(u) ==
  /\ uploads[u].stage = "sent"
  /\ uploads' = [uploads EXCEPT ![u].stage = "done"]
  /\ Becomes(uploadingFailed(World), "onError", u)
  /\ UNCHANGED <<drags, holder, rendered, saved, moves, lim, destroyed>>

\* pointer-down on a handle of the k-th element: mouseDownHandler
MouseDown(k, align) ==
  /\ rendered
  /\ IF align = "left" THEN els[k].downL ELSE els[k].downR
  /\ Len(drags) < lim.drags
  /\ drags' = Append(drags, align)
  /\ Becomes([World EXCEPT !.ui.isResizing = TRUE], "mousedown", <<k, align>>)
  /\ UNCHANGED <<uploads, holder, rendered, saved, moves, lim, destroyed>>

\* the document's mousemove listeners, called in the order they were added
RECURSIVE moveAll(_, _, _, _)
moveAll(w, listeners, clientX, hw) ==
  IF listeners = <<>> THEN w
  ELSE moveAll(resizeImage(w, clientX, Head(listeners), hw), Tail(listeners), clientX, hw)

\* the pointer moves to clientX during a drag
MouseMove(clientX) ==
  /\ drags # <<>>
  /\ moves < lim.moves
  /\ moves' = moves + 1
  /\ Becomes(moveAll(World, drags, clientX, holder), "mousemove", clientX)
  /\ UNCHANGED <<drags, uploads, holder, rendered, saved, lim, destroyed>>

\* a pointer-up that only the listener registered last gets
MouseUpLastOnly ==
  /\ drags # <<>>
  /\ drags' = SubSeq(drags, 1, Len(drags) - 1)
  /\ Becomes([World EXCEPT !.ui.isResizing = FALSE], "mouseup", drags)
  /\ UNCHANGED <<uploads, holder, rendered, saved, moves, lim, destroyed>>

\* pointer-up: every onMouseUp clears the flag and removes its two listeners
MouseUp ==
  /\ drags # <<>>
  /\ drags' = <<>>
  /\ Becomes([World EXCEPT !.ui.isResizing = FALSE], "mouseup", drags)
  /\ UNCHANGED <<uploads, holder, rendered, saved, moves, lim, destroyed>>

\* clientWidth and clientHeight of this.ui.nodes.imageEl: 0 when there is no
\* element or the block is not laid out (detached, hidden)
ClientWidth(visible) ==
  IF ui.imageEl = 0 \/ ~visible THEN 0 ELSE RenderWidth(els[ui.imageEl], holder)

ClientHeight(visible) ==
  IF ui.imageEl = 0 \/ ~visible THEN 0 ELSE RenderHeight(els[ui.imageEl], holder)

\* the host calls save()
Save(visible) ==
  /\ rendered /\ destroyed = <<>>
  /\ Becomes(save(World, ClientWidth(visible), ClientHeight(visible)), "save",
             [cw |-> ClientWidth(visible), ch |-> ClientHeight(visible)])
  /\ UNCHANGED <<drags, uploads, holder, rendered, saved, moves, lim, destroyed>>

Next ==
  \/ Render
  \/ \E k \in 1..Len(els) : LoadEvent(k)
  \/ \E k \in 1..Len(els) : ErrorEvent(k)
  \/ SelectFile
  \/ PasteFile
  \/ \E url \in Urls : PasteUrl(url)
  \/ \E u \in 1..Len(uploads) : Preview(u)
  \/ \E u \in 1..Len(uploads), response \in Responses : Respond(u, response)
  \/ \E u \in 1..Len(uploads) : Fail(u)
  \/ \E k \in 1..Len(els), align \in {"left", "right"} : MouseDown(k, align)
  \/ \E clientX \in PointerXs : MouseMove(clientX)
  \/ MouseUp
  \/ \E visible \in BOOLEAN : Save(visible)

Spec == Init /\ [][Next]_vars


-----------------------------------------------------------------------------
(* The dimensions alone: blocks with an asset and every kind of saved width, *)
(* displayed, resized, saved, and constructed again from what was saved      *)

\* the host constructs a new block from the data save() has just returned, in
\* a holder of the same width; saved.px keeps the width the element was
\* rendered at (with a height) at that save
Reload ==
  /\ op.name = "save"
  /\ saved.gen < MaxReloads
  /\ LET data == Data(Str(tool.data.caption), tool.data.width, tool.data.height,
                      tool.data.file)
         w == Constructor(data, saved.config, tool.readOnly)
     IN /\ tool' = w.tool
        /\ ui' = w.ui
        /\ els' = w.els
        /\ notes' = w.notes
        /\ saved' = [data |-> data, config |-> saved.config,
                     px |-> IF op.arg.ch > 0 THEN op.arg.cw ELSE 0,
                     gen |-> saved.gen + 1]
        /\ op' = [name |-> "constructor", arg |-> data, pre |-> <<>>]
  /\ drags' = <<>>
  /\ uploads' = <<>>
  /\ rendered' = FALSE
  /\ UNCHANGED <<holder, moves, lim, destroyed>>

InitDims ==
  \E width \in Widths, height \in Heights, url \in Urls, hw \in HolderWidths :
    Constructed(Data(Undefined, width, height, FileObj({"url"}, url)), NoConfig,
                FALSE, hw,
                [fills |-> 1, uploads |-> 0, drags |-> 1, moves |-> DimMoves])

NextDims ==
  \/ Render
  \/ \E k \in 1..Len(els) : LoadEvent(k)
  \/ \E k \in 1..Len(els) : ErrorEvent(k)
  \/ \E k \in 1..Len(els), align \in {"left", "right"} : MouseDown(k, align)
  \/ \E clientX \in PointerXs : MouseMove(clientX)
  \/ MouseUp
  \/ \E visible \in BOOLEAN : Save(visible)
  \/ Reload

SpecDims == InitDims /\ [][NextDims]_vars

-----------------------------------------------------------------------------
(* The removal of a block, and the events that reach it afterwards: the      *)
(* browser and the transport know nothing of destroy()                       *)

\* the host removes the block, which it has rendered: destroy()
Destroy ==
  /\ rendered /\ destroyed = <<>>
  /\ destroyed' = <<destroy(World)>>
  /\ Becomes(destroy(World), "destroy", <<>>)
  /\ UNCHANGED <<drags, uploads, holder, rendered, saved, moves, lim>>

\* a new block and a block with a saved asset
DestroyBlocks ==
  { Data(Undefined, Undefined, Undefined, NoFile),
    Data(Undefined, Num(150), Undefined, FileObj({"url"}, PngUrl)) }

InitDestroy ==
  \E data \in DestroyBlocks, readOnly \in BOOLEAN, hw \in HolderWidths :
    Constructed(data, NoConfig, readOnly, hw,
                [fills |-> MaxFills, uploads |-> MaxUploads,
                 drags |-> MaxDrags, moves |-> MaxMoves])

NextDestroy == Next \/ Destroy

SpecDestroy == InitDestroy /\ [][NextDestroy]_vars

-----------------------------------------------------------------------------
(* The caption: blocks constructed with every kind of caption and of caller's *)
(* showCaption, displayed, uploaded into, edited and saved                    *)

\* the user types in the caption node, which is editable unless read-only
\* and can be reached once it is in the block
EditCaption(text) ==
  /\ rendered /\ destroyed = <<>>
  /\ ~ui.readOnly /\ ui.captionParent # 0
  /\ text # ui.captionText
  /\ Becomes([World EXCEPT !.ui.captionText = text], "editCaption", text)
  /\ UNCHANGED <<drags, uploads, holder, rendered, saved, moves, lim, destroyed>>

CaptionTexts == {Undefined, Str(<<>>), Str(<<" ">>), Str(<<" ", "c", " ">>)}

\* what the user leaves in the caption node
TypedTexts == {<<>>, <<"e", " ">>}

ShowCaptions == {"undefined", "true", "false"}

InitCaption ==
  \E caption \in CaptionTexts, file \in {NoFile, FileObj({"url"}, PngUrl)},
     showCaption \in ShowCaptions, readOnly \in BOOLEAN, hw \in HolderWidths :
    Constructed(Data(caption, Undefined, Undefined, file), Config(showCaption),
                readOnly, hw,
                [fills |-> MaxFills, uploads |-> MaxUploads, drags |-> 0, moves |-> 0])

NextCaption ==
  \/ Render
  \/ \E k \in 1..Len(els) : LoadEvent(k)
  \/ \E k \in 1..Len(els) : ErrorEvent(k)
  \/ \E url \in Urls : PasteUrl(url)
  \/ \E u \in 1..Len(uploads), response \in Responses : Respond(u, response)
  \/ \E u \in 1..Len(uploads) : Fail(u)
  \/ \E text \in TypedTexts : EditCaption(text)
  \/ \E visible \in BOOLEAN : Save(visible)

SpecCaption == InitCaption /\ [][NextCaption]_vars

-----------------------------------------------------------------------------
(* Paste: every kind of paste event into a new block and into a block that   *)
(* shows a saved video, the uploads it begins and the assets the backend     *)
(* answers with                                                              *)

BlobUrl == <<"b", "l", "o", "b", ":", "x">>

\* a url with blob: in it, but not at its start
BlobInside == <<"x", "b", "l", "o", "b", ":">>

\* urls with .mp4 in them, but not at their end in that case
Mp4Query == <<"v", ".", "m", "p", "4", "?">>
Mp4Upper == <<"v", ".", "M", "P", "4">>

PasteEvents ==
  {TagPaste(src) : src \in {PngUrl, BlobUrl, BlobInside}}
    \cup {PatternPaste(PngUrl), FilePaste}

PasteResponses ==
  [success : {0, 1},
   file : {NoFile} \cup {FileObj({"url"}, u) : u \in {PngUrl, Mp4Url, Mp4Query, Mp4Upper}}]

PasteBlocks ==
  { Data(Undefined, Undefined, Undefined, NoFile),
    Data(Undefined, Undefined, Undefined, FileObj({"url"}, Mp4Url)) }

InitPaste ==
  \E data \in PasteBlocks, readOnly \in BOOLEAN, hw \in HolderWidths :
    Constructed(data, NoConfig, readOnly, hw,
                [fills |-> PasteUploads + 1, uploads |-> PasteUploads,
                 drags |-> 0, moves |-> 0])

NextPaste ==
  \/ Render
  \/ \E event \in PasteEvents : OnPaste(event)
  \/ \E u \in 1..Len(uploads) : Fetched(u)
  \/ \E u \in 1..Len(uploads) : FetchFailed(u)
  \/ \E u \in 1..Len(uploads) : Preview(u)
  \/ \E u \in 1..Len(uploads), response \in PasteResponses : Respond(u, response)
  \/ \E u \in 1..Len(uploads) : Fail(u)
  \/ \E k \in 1..Len(els) : LoadEvent(k)
  \/ \E k \in 1..Len(els) : ErrorEvent(k)
  \/ \E visible \in BOOLEAN : Save(visible)

SpecPaste == InitPaste /\ [][NextPaste]_vars

-----------------------------------------------------------------------------
(* Drags: pointer-downs that follow one another with or without a pointer-up *)
(* between, and resizeImage called in any state of the block                 *)

\* the public method Ui.resizeImage is called for a pointer at clientX
ResizeImage(clientX, align) ==
  /\ rendered
  /\ moves < lim.moves
  /\ moves' = moves + 1
  /\ Becomes(resizeImage(World, clientX, align, holder), "resizeImage",
             [clientX |-> clientX, align |-> align])
  /\ UNCHANGED <<drags, uploads, holder, rendered, saved, lim, destroyed>>

InitDrags ==
  \E width \in {Undefined, Num(150)}, url \in Urls, hw \in HolderWidths :
    Constructed(Data(Undefined, width, Undefined, FileObj({"url"}, url)), NoConfig,
                FALSE, hw,
                [fills |-> 1, uploads |-> 0, drags |-> MaxSessions, moves |-> DragMoves])

NextDrags ==
  \/ Render
  \/ \E k \in 1..Len(els) : LoadEvent(k)
  \/ \E k \in 1..Len(els) : ErrorEvent(k)
  \/ \E k \in 1..Len(els), align \in {"left", "right"} : MouseDown(k, align)
  \/ \E clientX \in PointerXs : MouseMove(clientX)
  \/ MouseUp
  \/ \E clientX \in PointerXs, align \in {"left", "right"} : ResizeImage(clientX, align)

SpecDrags == InitDrags /\ [][NextDrags]_vars

-----------------------------------------------------------------------------
(* Race: uploads of one block in flight together, each answered with success *)
(* and its own asset, in any order                                           *)

\* the response of the backend to the u-th upload: the pasted url kept for an
\* upload by url, a stored image for an uploaded file; the number of the
\* upload travels with it as an extra field
Answered(u) ==
  [success |-> 1,
   file |-> IF uploads[u].kind = "url" THEN FileObj({"url"}, uploads[u].src)
            ELSE FileObj({"url", "size"}, PngUrl),
   upload |-> u]

\* the transport delivers the response to the upload u
Answer(u) == Respond(u, Answered(u))

InitRace ==
  \E hw \in HolderWidths :
    Constructed(Data(Undefined, Undefined, Undefined, NoFile), NoConfig, FALSE, hw,
                [fills |-> RaceUploads, uploads |-> RaceUploads,
                 drags |-> 0, moves |-> 0])

NextRace ==
  \/ Render
  \/ SelectFile
  \/ PasteFile
  \/ \E url \in Urls : PasteUrl(url)
  \/ \E u \in 1..Len(uploads) : Preview(u)
  \/ \E u \in 1..Len(uploads) : Answer(u)
  \/ \E u \in 1..Len(uploads) : Fail(u)
  \/ \E k \in 1..Len(els) : LoadEvent(k)
  \/ \E k \in 1..Len(els) : ErrorEvent(k)

SpecRace == InitRace /\ [][NextRace]_vars

-----------------------------------------------------------------------------
(* validate() alone, on every candidate data *)

\* the host calls validate(savedData)
Validate(savedData) ==
  /\ op' = [name |-> "validate", arg |-> savedData, pre |-> <<>>,
            ret |-> validate(savedData)]
  /\ UNCHANGED <<tool, ui, els, drags, uploads, notes, holder, rendered, saved,
                 moves, lim, destroyed>>

NextValidate == \E savedData \in InitData : Validate(savedData)

SpecValidate == Init /\ [][NextValidate]_vars


-----------------------------------------------------------------------------
(* Properties *)

\* a stored dimension is absent or the string of a number greater than zero
Positive(v) == v.t # "undefined" /\ ~ParseInt(v).nan /\ ParseInt(v).n > 0

SaveNeverDegenerate ==
  op.name = "save" =>
    /\ tool.data.width.t = "undefined" \/ Positive(tool.data.width)
    /\ tool.data.height.t = "undefined" \/ Positive(tool.data.height)

\* round(p / c * 100) for positive p and c
Percent(p, c) == (200 * p + c) \div (2 * c)

\* C3: saved while the element is rendered p > 0 px wide (and its height is
\* > 0) in a container c px wide, the persisted width is the string of
\* round(p / c * 100).
SavedWidthIsPercent ==
  (op.name = "save" /\ op.arg.cw > 0 /\ op.arg.ch > 0) =>
    tool.data.width = Str(StringOf(Percent(op.arg.cw, holder)))

\* C4: the data save() returns for a block constructed without a height has
\* no height.
SaveWritesNoHeight ==
  (op.name = "save" /\ saved.data.height = Undefined) =>
    tool.data.height = Undefined


Abs(n) == IF n < 0 THEN 0 - n ELSE n

\* what rounding to a whole percentage of the holder may lose, in px
Tolerance == holder \div 200 + 1

\* C5: a block saved at rendered width p in a container of width c and
\* constructed again from the saved data in a container of width c gets, when
\* its asset is ready, a width within rounding of p, a saved width in (0,100]
\* being a percentage of the container and not that many pixels.
RoundTripThroughPercent ==
  (op.name = "load" /\ saved.gen > 0 /\ saved.px > 0 /\ ui.imageEl # 0) =>
    LET applied == els[ui.imageEl].styleWidth
        stored == ParseInt(saved.data.width).n
    IN /\ Abs(applied - saved.px) <= Tolerance
       /\ (stored > 0 /\ stored <= 100) =>
            Abs(applied - (stored * holder) \div 100) <= Tolerance

\* C6: legacy data with a numeric width above 100 and no height: at the ready
\* event of its asset the block's media element has exactly that width in px
\* and height auto.
LegacyPixelWidthRestored ==
  ( /\ op.name = "load" /\ op.arg = 1
    /\ HasUrl(saved.data.file)
    /\ saved.data.width.t = "number" /\ saved.data.width.n > 100
    /\ saved.data.height = Undefined
    /\ ui.imageEl # 0 ) =>
      /\ els[ui.imageEl].styleWidth = saved.data.width.n
      /\ els[ui.imageEl].styleHeight = "auto"

\* the asset of a legacy block is ready and the element is 150px wide
LegacyBlockLoaded ==
  /\ op.name = "load" /\ op.arg = 1
  /\ saved.data.width = Num(150) /\ saved.data.height = Undefined
  /\ ui.imageEl = 1
  /\ els[1].styleWidth = 150 /\ els[1].styleHeight = "auto"

\* C7: validate(data) is false, and does not throw, when data.file is {} or
\* its url is the empty string, and true when the url is a non-empty string.
ValidateNeedsUrl ==
  (op.name = "validate" /\ op.arg.file.t = "object") =>
    IF "url" \in op.arg.file.keys /\ Len(op.arg.file.url) > 0
    THEN op.ret = "true"
    ELSE op.ret = "false"

\* validate has rejected a file whose url is the empty string
ValidateRejectedEmptyUrl ==
  /\ op.name = "validate"
  /\ op.arg.file = FileObj({"url"}, <<>>)
  /\ op.ret = "false"

\* C8: after render() a block constructed with data that names no asset
\* (data = {}, file = {}) is Empty, and one whose file has a url is Uploading.
InitialStateFromData ==
  op.name = "render" =>
    /\ (saved.data.file.t = "undefined" \/ saved.data.file.keys = {}) =>
         ui.classes = {"empty"}
    /\ HasUrl(saved.data.file) => ui.classes = {"uploading"}

\* C9: at most one of the flags empty, uploading, filled is on the wrapper,
\* and exactly one from the first render() on.
OneStateFlag ==
  /\ Cardinality(ui.classes) <= 1
  /\ rendered => Cardinality(ui.classes) = 1

\* a second asset has loaded after an upload and a resize
FilledAfterUploadAndResize ==
  /\ rendered /\ ui.classes = {"filled"}
  /\ Len(els) = 2 /\ moves > 0
  /\ \E u \in 1..Len(uploads) : uploads[u].stage = "done"

\* the transport's answer is a failure: onError, no success flag, or no file
Failure(o) ==
  \/ o.name = "onError"
  \/ o.name = "onUpload" /\ (o.arg.success = 0 \/ o.arg.file.t = "undefined")

\* C10: on a transport failure, or a response without the success flag or
\* without a file, exactly one notification of style error is shown, the state
\* is Empty, the upload-trigger button is on the wrapper unless read-only, and
\* the stored file is not replaced.
FailureRestoresEmpty ==
  Failure(op) =>
    /\ notes = Append(op.pre.notes, "error")
    /\ ui.classes = {"empty"}
    /\ ~tool.readOnly => ui.buttonParent
    /\ tool.data.file = op.pre.data.file

\* a file-picker upload answered with success and no file
PickerUploadFailed ==
  /\ op.name = "onUpload" /\ op.arg.success = 1 /\ op.arg.file.t = "undefined"
  /\ \E u \in 1..Len(uploads) : uploads[u].kind = "picker"
  /\ notes = <<"error">> /\ ui.classes = {"empty"} /\ ui.buttonParent

\* C11: on a successful response carrying a file descriptor with a url, the
\* stored file is exactly that descriptor, extra fields included, and a new
\* media element for its url, given the stored width and height, is the
\* current element in the image container; no later operation but another
\* upload replaces the stored file, so save() returns that descriptor.
SuccessStoresDescriptor ==
  /\ (op.name = "onUpload" /\ op.arg.success # 0 /\ HasUrl(op.arg.file)) =>
       /\ tool.data.file = op.arg.file
       /\ Len(els) = Len(op.pre.els) + 1
       /\ ui.imageEl = Len(els)
       /\ els[Len(els)].url = op.arg.file.url
       /\ els[Len(els)].attributes.src = op.arg.file.url
       /\ els[Len(els)].parent
       /\ els[Len(els)].width = op.pre.data.width
       /\ els[Len(els)].height = op.pre.data.height
  /\ op.name \notin {"constructor", "validate", "onUpload"} =>
       tool.data.file = op.pre.data.file

\* a new block saved after its upload was answered with a descriptor that has
\* an extra field
SavedUploadedDescriptor ==
  /\ op.name = "save"
  /\ saved.data.file = NoFile
  /\ tool.data.file = FileObj({"url", "size"}, PngUrl)
  /\ ui.imageEl = 1 /\ els[1].url = PngUrl

\* C12: when the current media element fires its error event the state is
\* Empty, that element is no longer in the image container and the block has
\* no current media element.
ErrorDiscardsElement ==
  (op.name = "error" /\ op.pre.ui.imageEl = op.arg) =>
    /\ ui.classes = {"empty"}
    /\ ~els[op.arg].parent
    /\ els[op.arg].fired = "error"
    /\ ui.imageEl = 0

\* the asset of an upload, displayed over a saved asset, has failed to load
UploadedAssetFailed ==
  /\ op.name = "error" /\ op.arg = 2 /\ op.pre.ui.imageEl = 2
  /\ op.pre.classes = {"uploading"}
  /\ ~els[2].parent /\ ui.imageEl = 0 /\ ui.classes = {"empty"}

\* C13: a move event during a drag (one handle held, a media element present)
\* sets the width of the element to W + offset, and to 30 when that is below
\* 30, and its height to auto, where W is the width the element had and offset
\* is its left edge minus the pointer x for the left handle, the pointer x
\* minus its right edge for the right handle; image or video alike, and every
\* move of a sequence from the width the move before it left.
ResizeFollowsPointer ==
  ( /\ op.name = "mousemove" /\ Len(drags) = 1
    /\ op.pre.ui.isResizing /\ op.pre.ui.imageEl # 0 ) =>
      LET k == op.pre.ui.imageEl
          e == op.pre.els[k]
          W == RenderWidth(e, holder)
          offset == IF drags[1] = "left" THEN RectLeft(e, holder) - op.arg
                    ELSE op.arg - RectRight(e, holder)
      IN /\ els[k].styleWidth = (IF W + offset < 30 THEN 30 ELSE W + offset)
         /\ els[k].styleHeight = "auto"
         /\ ui.imageEl = k

\* a video 150px wide, grown to 185 by a first move of the pointer 35px
\* outside its right edge and brought to the minimum by a second move far
\* inside
VideoGrownThenClamped ==
  /\ op.name = "mousemove" /\ moves = 2 /\ drags = <<"right">>
  /\ els[1].tag = "VIDEO"
  /\ op.arg = 10
  /\ RenderWidth(op.pre.els[1], holder) = 185
  /\ els[1].styleWidth = 30

\* the events of the browser that reach listeners of the block
BrowserEvents == {"selectFile", "load", "error", "mousedown", "mousemove", "mouseup"}

\* the media elements with what the browser has fired on them left out
Unfired(elements) ==
  [k \in 1..Len(elements) |-> [elements[k] EXCEPT !.fired = "none"]]

\* C14: after destroy() no callback of the block runs: a click on the
\* upload-trigger button, a ready or error event of any media element the
\* block made, a pointer-down on any of its handles, and the move and release
\* events of a drag that was active at destroy() leave the data, the
\* presentation and the media elements as they were.
DestroyedBlockIgnoresEvents ==
  (destroyed # <<>> /\ op.name \in BrowserEvents) =>
    /\ tool.data = op.pre.data
    /\ notes = op.pre.notes
    /\ ui = op.pre.ui
    /\ Unfired(els) = Unfired(op.pre.els)

\* C15: a read-only block never has the upload-trigger button on its wrapper
\* nor a resize handle beside any of its media elements, whatever operations
\* it has gone through (uploads that failed, assets displayed).
ReadOnlyHasNoControls ==
  tool.readOnly =>
    /\ ~ui.buttonParent
    /\ ui.resizeHandlers = {}
    /\ \A k \in 1..Len(els) :
         ~els[k].handles /\ ~els[k].downL /\ ~els[k].downR

\* a read-only block that displays an asset, after an upload into it failed
ReadOnlyUploadFailed ==
  /\ tool.readOnly
  /\ Failure(op)
  /\ Len(els) = 1 /\ ~els[1].handles
  /\ ~ui.buttonParent

\* a caption that is absent, empty or made of blanks only
Blank(caption) ==
  caption.t = "undefined" \/ \A i \in 1..Len(caption.s) : caption.s[i] = " "

CallerShowCaptionObeyed ==
  /\ saved.config.showCaption = "false" => ui.captionParent = 0
  /\ saved.config.showCaption = "undefined" => ui.showCaption

\* C18: a pasted url that matched the pattern and a pasted tag with the same
\* src, not a blob, end in the same call: the preloader is shown with that
\* url, upload-by-url is called with it, and nothing else of the block
\* changes; the data after a response depends on the response alone.
PastedTagAndPatternAgree ==
  /\ ( /\ op.name = "onPaste" /\ op.arg.type \in {"tag", "pattern"}
       /\ ~IsBlob(op.arg.data) ) =>
         /\ onPaste(TagPaste(op.arg.data)) = onPaste(PatternPaste(op.arg.data))
         /\ ui = [op.pre.ui EXCEPT !.preloaderBg = op.arg.data,
                                   !.classes = {"uploading"}]
         /\ uploads[Len(uploads)] = Upload(op.arg.type, "url", op.arg.data, "sent")
         /\ tool.data = op.pre.data /\ els = op.pre.els /\ notes = op.pre.notes
  /\ (op.name = "onUpload" /\ op.arg.success # 0 /\ op.arg.file.t # "undefined") =>
         tool.data = [op.pre.data EXCEPT !.file = op.arg.file]

\* the upload begun by a pasted tag has been answered with an asset
PastedTagAnswered ==
  /\ op.name = "onUpload" /\ op.arg.success # 0
  /\ Len(uploads) = 1
  /\ uploads[1] = Upload("tag", "url", PngUrl, "done")
  /\ tool.data.file = FileObj({"url"}, PngUrl)

\* C19: the upload of a pasted tag whose src starts with blob:, and of a
\* pasted or dropped file, is never an upload by url: the blob is fetched and
\* then given to upload-by-file, the file is given to upload-by-file at once.
BlobAndFileNeverByUrl ==
  /\ \A u \in 1..Len(uploads) :
       LET blob == uploads[u].from = "tag"
                     /\ Len(uploads[u].src) >= 5
                     /\ SubSeq(uploads[u].src, 1, 5) = <<"b", "l", "o", "b", ":">>
       IN /\ blob => /\ uploads[u].kind \in {"fetch", "file"}
                     /\ uploads[u].kind = "fetch" =>
                          uploads[u].stage \in {"fetching", "done"}
          /\ uploads[u].from = "file" => uploads[u].kind = "file"
          /\ uploads[u].kind = "url" => ~blob /\ uploads[u].from # "file"
  /\ op.name = "fetched" =>
       uploads[op.arg].kind = "file" /\ uploads[op.arg].stage = "reading"

\* a pasted blob has been fetched, uploaded as a file and answered
PastedBlobUploadedAsFile ==
  /\ op.name = "onUpload" /\ op.arg.success # 0
  /\ Len(uploads) = 1
  /\ uploads[1] = Upload("tag", "file", BlobUrl, "done")

\* the url ends in .mp4
EndsInMp4(url) ==
  \E n \in 0..Len(url) : url = SubSeq(url, 1, n) \o <<".", "m", "p", "4">>

\* C20: the element made for a url ending in .mp4 is a video with autoplay,
\* loop, muted, playsinline and controls set, and listens for loadeddata; the
\* element made for any other url is an image with loading lazy and decoding
\* async, and listens for load.
AssetClassification ==
  \A k \in 1..Len(els) :
    IF EndsInMp4(els[k].url)
    THEN /\ els[k].tag = "VIDEO"
         /\ els[k].attributes.autoplay /\ els[k].attributes.loop
         /\ els[k].attributes.muted /\ els[k].attributes.playsinline
         /\ els[k].attributes.controls
         /\ els[k].attributes.src = els[k].url
         /\ els[k].eventName = "loadeddata"
    ELSE /\ els[k].tag = "IMG"
         /\ els[k].attributes =
              [src |-> els[k].url, loading |-> "lazy", decoding |-> "async"]
         /\ els[k].eventName = "load"

\* a block that displayed a saved video and then, as an image, an uploaded
\* asset whose url has .mp4 before its query
VideoThenImage ==
  /\ Len(els) = 2
  /\ els[1].url = Mp4Url /\ els[1].tag = "VIDEO"
  /\ els[2].url = Mp4Query /\ els[2].tag = "IMG"

\* the changes of state the state machine of the presentation has
Transitions ==
  { <<{"empty"}, {"uploading"}>>, <<{"uploading"}, {"filled"}>>,
    <<{"uploading"}, {"empty"}>>, <<{"filled"}, {"empty"}>> }

\* C21: once the block has a state, every operation leaves it in that state
\* or takes it along Empty to Uploading, Uploading to Filled, Uploading to
\* Empty or Filled to Empty; never from Empty to Filled nor from Filled to
\* Uploading.
OnlyListedTransitions ==
  (op.name \notin {"constructor", "validate"} /\ op.pre.classes # {}) =>
    \/ ui.classes = op.pre.classes
    \/ <<op.pre.classes, ui.classes>> \in Transitions

\* nothing is pending: the block is rendered, every upload has been answered
\* and every media element has fired its ready or its error event
Quiescent ==
  /\ rendered
  /\ \A u \in 1..Len(uploads) : uploads[u].stage = "done"
  /\ \A k \in 1..Len(els) : els[k].fired # "none"

\* C22: a block constructed with a saved asset, or into which an upload was
\* begun, is Filled or Empty and not Uploading once it is rendered, every
\* upload has been answered and every media element has fired its ready or
\* error event; whatever the order of render() and the ready event, and also
\* for a response with success and a file without url.
NeverStuckUploading ==
  (Quiescent /\ (HasUrl(saved.data.file) \/ Len(uploads) > 0)) =>
    ui.classes \in {{"filled"}, {"empty"}}

\* C23: when the current media element fires its ready event the state is
\* Filled and the preloader is hidden; a saved width that parses to a number
\* above zero is the width of the element, with height auto, and a saved
\* width that is absent, zero, negative or not a number leaves the width and
\* height styles as they were.
ReadyFillsAndSizes ==
  (op.name = "load" /\ op.pre.ui.imageEl = op.arg /\ op.arg = 1) =>
    /\ ui.classes = {"filled"}
    /\ ui.preloaderDisplay = "none"
    /\ ui.imageEl = 1
    /\ IF Positive(saved.data.width)
       THEN /\ els[1].styleWidth = ParseInt(saved.data.width).n
            /\ els[1].styleHeight = "auto"
       ELSE /\ els[1].styleWidth = op.pre.els[1].styleWidth
            /\ els[1].styleHeight = op.pre.els[1].styleHeight

\* an asset saved with the width '-5' is ready: Filled, and no width set
NegativeWidthIgnored ==
  /\ op.name = "load" /\ op.arg = 1 /\ ui.imageEl = 1
  /\ saved.data.width = Str(<<"-", "5">>)
  /\ ui.classes = {"filled"}
  /\ els[1].styleWidth = 0 /\ els[1].styleHeight = ""

\* an upload begun with the file picker has not been answered yet
PickerInFlight ==
  \E u \in 1..Len(uploads) :
    uploads[u].kind = "picker" /\ uploads[u].stage # "done"

\* C24: whenever the state is Empty, the block is not read-only and no upload
\* from the file picker is in flight, the upload-trigger button is on the
\* wrapper; also after a file-picker upload succeeded and its asset failed to
\* load.
EmptyHasButton ==
  (ui.classes = {"empty"} /\ ~tool.readOnly /\ ~PickerInFlight) =>
    ui.buttonParent

\* C25: when the state has gone to Empty because an upload failed or an asset
\* failed to load, the block has no current media element and no media
\* element is attached in the image container; also when the upload fails
\* while an earlier asset is displayed.
EmptyHasNoElement ==
  ((Failure(op) \/ op.name = "error") /\ ui.classes = {"empty"}) =>
    /\ ui.imageEl = 0
    /\ \A k \in 1..Len(els) : ~els[k].parent

\* C26: once fillImage has displayed a new asset, the elements displayed
\* before it have no ready and no error listener, and a ready or error event
\* of an element that is not the current one changes nothing of the
\* presentation nor of any media element.
SupersededListenersDetached ==
  /\ \A k \in 1..Len(els) :
       k < Len(els) => ~els[k].onReady /\ ~els[k].onError
  /\ (op.name \in {"load", "error"} /\ op.arg # op.pre.ui.imageEl) =>
       ui = op.pre.ui /\ Unfired(els) = Unfired(op.pre.els)

\* C27: at most one move listener and one release listener of the block are
\* on the document in any state, also when a pointer-down comes before the
\* pointer-up of the drag before it, so that a move event resizes the element
\* once, for one handle.
AtMostOneSession == Len(drags) <= 1

\* C28: after a pointer-up the resizing flag is false and no move or release
\* listener of the block is left on the document, however many pointer-downs
\* came before it; with no listener left the flag is false, and resizeImage
\* for a later pointer move leaves the element as it is.
ReleaseEndsDrag ==
  /\ op.name = "mouseup" => ~ui.isResizing /\ drags = <<>>
  /\ drags = <<>> => ~ui.isResizing
  /\ (op.name = "resizeImage" /\ drags = <<>>) => els = op.pre.els

\* a pointer-up after two pointer-downs, left and right, and a move that
\* resized the element: both listener pairs are gone
ReleasedBothHandles ==
  /\ op.name = "mouseup" /\ op.arg = <<"left", "right">>
  /\ moves > 0 /\ els[1].styleWidth >= 30
  /\ drags = <<>> /\ ~ui.isResizing

\* C29: resizeImage called while no drag is active or while the block has no
\* current media element changes no width and no height style, and nothing
\* else, for every pointer position and either handle.
ResizeNeedsDragAndElement ==
  ( /\ op.name \in {"resizeImage", "mousemove"}
    /\ (~op.pre.ui.isResizing \/ op.pre.ui.imageEl = 0) ) =>
      /\ els = op.pre.els
      /\ ui = op.pre.ui
      /\ tool.data = op.pre.data

\* resizeImage was called with no drag active on an element that is ready
ResizeCalledOutsideDrag ==
  /\ op.name = "resizeImage" /\ op.arg.align = "left" /\ op.arg.clientX = 10
  /\ ~op.pre.ui.isResizing /\ ui.imageEl = 1
  /\ els[1].fired = "load" /\ els[1].styleWidth = 0

\* C30: a block destroyed while an upload is in flight ignores the response:
\* after destroy() a success or a failure response of the transport changes
\* neither the data nor the presentation, makes no media element, registers
\* no listener and shows no notification.
DestroyedBlockIgnoresResponse ==
  (destroyed # <<>> /\ op.name \in {"onUpload", "onError"}) =>
    /\ tool.data = op.pre.data
    /\ notes = op.pre.notes
    /\ ui = op.pre.ui
    /\ els = op.pre.els

\* C31: when two uploads are in flight together and both succeed, the block
\* ends with the result of the response that arrives last, in whatever order
\* the uploads were started: each response makes its descriptor the stored
\* file and an element for its url the current media element, and nothing
\* afterwards replaces the file or, short of an asset that fails to load,
\* the current element.
LastResponseWins ==
  /\ op.name = "onUpload" =>
       /\ tool.data.file = op.arg.file
       /\ ui.imageEl = Len(els)
       /\ els[ui.imageEl].url = op.arg.file.url
       /\ els[ui.imageEl].parent
  /\ op.name \notin {"constructor", "onUpload"} =>
       tool.data.file = op.pre.data.file
  /\ op.name \notin {"constructor", "onUpload", "error"} =>
       ui.imageEl = op.pre.ui.imageEl

\* the upload by url started first is answered last, after the picked file
\* started second was answered: the block shows the pasted video
FirstStartedAnsweredLast ==
  /\ op.name = "onUpload" /\ op.arg.upload = 1
  /\ Len(uploads) = 2
  /\ uploads[1].kind = "url" /\ uploads[1].src = Mp4Url
  /\ uploads[2].kind = "picker" /\ uploads[2].stage = "done"
  /\ els[1].url = PngUrl
  /\ tool.data.file = FileObj({"url"}, Mp4Url)
  /\ ui.imageEl = 2 /\ els[2].tag = "VIDEO"

\* C32: every upload shows the preloader at once: when an upload by url
\* begins, and when the preview of an uploaded file is produced, the state is
\* Uploading and the preloader is visible with the pasted url or the preview
\* as its background, also when an earlier asset of the block has loaded.
PreloaderShownAtOnce ==
  /\ (op.name = "onPaste" /\ onPaste(op.arg).call = "url") =>
       /\ ui.classes = {"uploading"}
       /\ ui.preloaderBg = op.arg.data
       /\ ui.preloaderDisplay # "none"
  /\ op.name = "preview" =>
       /\ ui.classes = {"uploading"}
       /\ ui.preloaderBg = PreviewSrc
       /\ ui.preloaderDisplay # "none"

\* C33: the upload-trigger button is off the wrapper while an upload started
\* from the file picker is in flight; an upload by url and a pasted or
\* dropped file do not detach it; detaching it when it is already detached
\* changes nothing.
ButtonOffDuringPickerUpload ==
  /\ PickerInFlight => ~ui.buttonParent
  /\ op.name \in {"onPaste", "preview", "fetched"} =>
       ui.buttonParent = op.pre.ui.buttonParent
  /\ ~ui.buttonParent => removeFileButton(World) = World

\* C34: the presentation component never changes the block's data:
\* pointer-down, move and release on the handles, the ready and the error
\* event of an asset leave file, caption, width and height as they were, and
\* after construction the stored width and height change in save() only.
UiNeverWritesData ==
  /\ op.name \in {"mousedown", "mousemove", "mouseup", "load", "error"} =>
       tool.data = op.pre.data
  /\ op.name \notin {"constructor", "validate", "save"} =>
       /\ tool.data.width = op.pre.data.width
       /\ tool.data.height = op.pre.data.height

\* a move of a drag resized the element of a block saved without a width,
\* and the data has no width still
ResizedButNotStored ==
  /\ op.name = "mousemove"
  /\ ui.imageEl = 1
  /\ els[1].styleWidth >= MinWidth
  /\ els[1].styleWidth # op.pre.els[1].styleWidth
  /\ tool.data.width = Undefined
  /\ tool.data = op.pre.data

\* the text of a caption the block is constructed with: none is the empty text
GivenCaption == IF saved.data.caption.t = "undefined" THEN <<>> ELSE saved.data.caption.s

\* C35: caption round trip: a block constructed with the caption c returns
\* from save(), when the caption was not edited, c without its leading and
\* trailing blanks, and the empty text when it was constructed with no
\* caption; nothing but an edit of the user changes the text of the caption
\* node after construction.
CaptionRoundTrip ==
  /\ op.name = "constructor" => ui.captionText = GivenCaption
  /\ op.name \notin {"constructor", "editCaption"} =>
       ui.captionText = op.pre.ui.captionText
  /\ (op.name = "save" /\ ui.captionText = GivenCaption) =>
       /\ tool.data.caption = Trim(GivenCaption)
       /\ tool.data.caption = <<>> \/ tool.data.caption[1] # " "
       /\ tool.data.caption = <<>> \/ tool.data.caption[Len(tool.data.caption)] # " "
       /\ saved.data.caption = Undefined => tool.data.caption = <<>>

\* a block constructed with the caption " c " returned "c" from save()
CaptionSavedTrimmed ==
  /\ op.name = "save"
  /\ saved.data.caption = Str(<<" ", "c", " ">>)
  /\ ui.captionText = <<" ", "c", " ">>
  /\ tool.data.caption = <<"c">>

\* C36: after any uploads, responses, ready and error events the image
\* container holds at most one media element and at most one pair of resize
\* handles, and the attached element is the current one; a new asset leaves
\* no element, wrapper or handles of the asset before it in the block.
OneElementInContainer ==
  /\ Cardinality({k \in 1..Len(els) : els[k].parent}) <= 1
  /\ Cardinality({k \in 1..Len(els) : els[k].handles}) <= 1
  /\ \A k \in 1..Len(els) : els[k].parent => ui.imageEl = k

\* C37: whenever the state is Empty the data save() returns names no asset
\* (file.url is empty) and validate() rejects it; after the displayed asset
\* failed to load, save() does not go on returning its url.
EmptySavesNoAsset ==
  (op.name = "save" /\ ui.classes = {"empty"}) =>
    /\ ~HasUrl(tool.data.file)
    /\ validate(tool.data) # "true"

\* C38: a width the block has set on a media element, from the saved data at
\* the ready event or by a resize move, is a number above zero, 30 at least
\* when a resize set it, and the height set with it is auto; no operations
\* set a zero, a negative or a non-numeric width.
ExplicitWidthPositive ==
  /\ \A k \in 1..Len(els) :
       /\ els[k].styleWidth \in Nat
       /\ els[k].styleHeight \in {"", "auto"}
       /\ els[k].styleHeight = "" => els[k].styleWidth = 0
       /\ els[k].styleHeight = "auto" => els[k].styleWidth > 0
  /\ \A k \in 1..Len(els) :
       (op.name # "constructor" /\ k <= Len(op.pre.els) /\ els[k] # op.pre.els[k]
          /\ <<els[k].styleWidth, els[k].styleHeight>>
               # <<op.pre.els[k].styleWidth, op.pre.els[k].styleHeight>>) =>
         \/ op.name = "mousemove" /\ els[k].styleWidth >= MinWidth
         \/ /\ op.name = "load"
            /\ els[k].styleWidth = ParseInt(els[op.arg].width).n

\* the element got the saved width 50 at its ready event and a drag then
\* shrank it to the minimum
SavedWidthThenMinimum ==
  /\ op.name = "mousemove"
  /\ saved.data.width = Str(<<"5", "0">>)
  /\ op.pre.els[1].styleWidth = 50
  /\ els[1].styleWidth = 30 /\ els[1].styleHeight = "auto"

\* C39: the stored aspect ratio is the intrinsic height over the intrinsic
\* width of the asset whose ready event fired last, natural size of an image
\* or intrinsic size of a video; every ready event recomputes it and no other
\* operation (resize, save, upload failure) changes it.
RatioOfLastReadyAsset ==
  /\ op.name = "load" =>
       ui.contentRatio = [nan |-> FALSE, h |-> NaturalHeight(els[op.arg].url),
                          w |-> NaturalWidth(els[op.arg].url)]
  /\ op.name \notin {"constructor", "load"} =>
       ui.contentRatio = op.pre.ui.contentRatio

====
